---- MODULE Spec2Model ----
(***************************************************************************)
(* Retrieval orchestration core of the multi-user RAG chatbot.             *)
(*                                                                         *)
(* Part I  (Spec): the index cache, app/rag/retriever.py                   *)
(*   MultiUserRetriever and the clear branch of                            *)
(*   FileHandler.delete_user_file.  MultiUserRetriever is one module-level *)
(*   object (multi_user_retriever) whose methods take no lock; its callers *)
(*   are modelled as threads of a multi-threaded server that interleave at *)
(*   the granularity of one dictionary operation or one file-system        *)
(*   operation per step.                                                   *)
(*                                                                         *)
(* A persisted index is the pair of files index.faiss / index.pkl that     *)
(* FAISS.save_local writes, in that order, into rag_index_<user>.  The     *)
(* code keeps no generation counter; the model numbers the in-memory       *)
(* indexes FAISS.from_documents creates (built) and records in every file  *)
(* and handle the number of the build it came from.                        *)
(***************************************************************************)
EXTENDS Integers, Sequences, FiniteSets, TLC

\* app/main.py validates user_id against a fixed enumeration; two of the users
Users == {"user1", "user2"}
\* the scope the threads of Part I contend for
Contended == {"user1"}

\* callers of build_user_index / delete_user_file, and of query_user_documents
Writers == {"w1", "w2"}
Readers == {"r1", "r2"}

\* number of index builds per user explored
MaxBuilds == 2

\* the three non-context answers of query_user_documents
NO_DOCUMENTS == "No documents available for this user."
NO_RELEVANT == "No relevant information found in your documents."
ERROR_RETRIEVING == "Error retrieving documents."
CONTEXT == "[SOURCE: ...]"

\* a handle (retriever over a loaded vector store): the builds its two files came from
Handle(f, p) == <<f, p>>
\* absent dictionary key / Python None
NoHandle == <<0, 0>>

VARIABLES
    user_retrievers,   \* MultiUserRetriever.user_retrievers: user -> handle or NoHandle (key absent)
    index_dir,         \* user -> rag_index_<user> exists
    index_faiss,       \* user -> build whose index.faiss is on disk, 0 = no file
    index_pkl,         \* user -> build whose index.pkl is on disk, 0 = no file
    built,             \* user -> number of in-memory indexes created so far
    lastDone,          \* user -> greatest build whose build_user_index returned True
    cleared,           \* user -> a delete of the last file has returned and no build persisted since
    wr,                \* writer thread -> [pc, user, gen, res]
    rd                 \* reader thread -> [pc, user, faiss, handle, new, res]

cacheVars == <<user_retrievers, index_dir, index_faiss, index_pkl, built, lastDone, cleared, wr, rd>>

\* Part II (SpecBuild): what a build puts into the persisted index, one call at a time
VARIABLES
    files,             \* the upload paths that exist on disk
    index_docs,        \* user -> the documents in the persisted index, in index order
    last               \* the last build call: [op, user, paths, existing, before, providerOk, result, ok]

buildVars == <<files, index_docs, last>>

\* Part III (SpecRouter): one run of the agent graph
VARIABLES
    node,              \* the graph node to run next; "idle" outside run()
    state,             \* AgentState: [decision, rag_context, search_results, final_answer]
    happened,          \* what happened inside the last ask_gemini call
    calls,             \* the nodes and adapters invoked in this run, in order
    evidence,          \* what the retriever and the search provider gave in this run
    context_parts,     \* generate_answer's context_parts: what the prompt is made of
    returned,          \* how the last run() ended and with what text
    searched           \* the last call of a web-search adapter on its own (SpecSearch)

routerVars == <<node, state, happened, calls, evidence, context_parts, returned, searched>>

\* Part IV (SpecIngest): the upload, delete and query requests, one at a time
VARIABLES
    db,                \* user -> the records of user<k>_files in insertion order: [filename, file_path, processed]
    loaded,            \* user -> the documents of the store behind the cached retriever
    uuids,             \* the number of uuid4 names drawn so far
    deleted,           \* the paths whose delete_user_file returned True
    done               \* the last request: [op, user, ext, file, status, build, result, docs]

ingestVars == <<db, loaded, uuids, deleted, done>>

\* Part V (SpecChat): the /chat requests, one at a time
VARIABLES
    messages,          \* user -> the records of user<k>_messages in insertion order: [role, request_id]
    rids,              \* the number of request ids the middleware has drawn
    replied            \* the last /chat response: [user, request_id, status]

chatVars == <<messages, rids, replied>>

\* Part VI (SpecLauncher): ApplicationLauncher of run_full_app.py
VARIABLES
    backend_process,   \* "None", or the state of the child: running, exited, terminated, killed
    frontend_process,  \* the same for the frontend
    running,           \* self.running
    lpc,               \* where the main thread is in run()
    backend_seen       \* start_backend has seen the backend running (returned True)

launcherVars == <<backend_process, frontend_process, running, lpc, backend_seen>>

appVars == <<ingestVars, chatVars, launcherVars>>

vars == <<cacheVars, buildVars, routerVars, appVars>>

\* no file
NoFile == [dir |-> "", name |-> 0, ext |-> <<>>]
\* no request handled yet
NoRequest == [op |-> "none", user |-> "", ext |-> <<>>, file |-> NoFile, status |-> 0,
              build |-> "none", result |-> "none", docs |-> <<>>]

\* file_handler.py line 174 and retriever.py line 15 at import: nothing uploaded,
\* nothing cached
IngestInit ==
    /\ db = [u \in Users |-> <<>>]
    /\ loaded = [u \in Users |-> <<>>]
    /\ uuids = 0
    /\ deleted = {}
    /\ done = NoRequest

\* no /chat request answered yet
NoReply == [user |-> "", request_id |-> 0, status |-> 0]

\* the message collections of a fresh database
ChatInit ==
    /\ messages = [u \in Users |-> <<>>]
    /\ rids = 0
    /\ replied = NoReply

\* run_full_app.py lines 16-19, and run() entered
LauncherInit ==
    /\ backend_process = "None"
    /\ frontend_process = "None"
    /\ running = TRUE
    /\ lpc = "start_backend"
    /\ backend_seen = FALSE

AppInit == IngestInit /\ ChatInit /\ LauncherInit

Max(a, b) == IF a >= b THEN a ELSE b

WriterIdle == [pc |-> "idle", user |-> "user1", gen |-> 0, res |-> "none"]
\* res: what query_user_documents returns, <<text, number of documents>>, or
\* <<"KeyError", 0>> when it raises
NoResult == <<"", 0>>
ReaderIdle == [pc |-> "idle", user |-> "user1", faiss |-> 0, handle |-> NoHandle,
               new |-> FALSE, res |-> NoResult]

\* bookkeeping: a writer changed (or reported) the index of u, so the queries
\* of u now under way are no longer queries that began after the last change
Older(u) == [r \in Readers |-> IF rd[r].user = u THEN [rd[r] EXCEPT !.new = FALSE] ELSE rd[r]]

\* bookkeeping: a rebuild of u is under way, so "no rebuild since the delete" ends
NoteRebuild(u) ==
    /\ cleared' = [cleared EXCEPT ![u] = FALSE]
    /\ rd' = Older(u)

\* MultiUserRetriever.__init__: empty cache.  The index directories outlive the
\* process, so a user either has no index or the index of an earlier run.
CacheInit ==
    /\ user_retrievers = [u \in Users |-> NoHandle]
    /\ \E had \in [Users -> BOOLEAN] :
         /\ \A u \in Users \ Contended : ~had[u]
         /\ index_dir = had
         /\ index_faiss = [u \in Users |-> IF had[u] THEN 1 ELSE 0]
         /\ index_pkl = [u \in Users |-> IF had[u] THEN 1 ELSE 0]
         /\ built = [u \in Users |-> IF had[u] THEN 1 ELSE 0]
         /\ lastDone = [u \in Users |-> IF had[u] THEN 1 ELSE 0]
    /\ cleared = [u \in Users |-> FALSE]
    /\ wr = [w \in Writers |-> WriterIdle]
    /\ rd = [r \in Readers |-> ReaderIdle]

-----------------------------------------------------------------------------
(* build_user_index *)

\* lines 25-28: the call creates the index directory before anything else
BuildCall(w, u) ==
    /\ wr[w].pc = "idle"
    /\ built[u] < MaxBuilds
    /\ index_dir' = [index_dir EXCEPT ![u] = TRUE]
    /\ wr' = [wr EXCEPT ![w] = [pc |-> "load", user |-> u, gen |-> 0, res |-> "none"]]
    /\ NoteRebuild(u)
    /\ UNCHANGED <<user_retrievers, index_faiss, index_pkl, built, lastDone>>
    /\ UNCHANGED <<buildVars, routerVars, appVars>>

\* lines 31-59: load and split the files, FAISS.from_documents.  No documents
\* (line 47) or an exception of the loader or the embedding provider (line 69)
\* returns False; otherwise a new in-memory index exists.
BuildLoad(w, ok) ==
    /\ wr[w].pc = "load"
    /\ LET u == wr[w].user IN
       IF ok
       THEN /\ built' = [built EXCEPT ![u] = @ + 1]
            /\ wr' = [wr EXCEPT ![w].pc = "save_faiss", ![w].gen = built[u] + 1]
       ELSE /\ wr' = [wr EXCEPT ![w].pc = "ret", ![w].res = "False"]
            /\ UNCHANGED built
    /\ UNCHANGED <<user_retrievers, index_dir, index_faiss, index_pkl, lastDone, cleared, rd>>
    /\ UNCHANGED <<buildVars, routerVars, appVars>>

\* line 60, FAISS.save_local first half: (re)creates the folder and writes index.faiss
BuildSaveFaiss(w) ==
    /\ wr[w].pc = "save_faiss"
    /\ LET u == wr[w].user IN
       /\ index_dir' = [index_dir EXCEPT ![u] = TRUE]
       /\ index_faiss' = [index_faiss EXCEPT ![u] = wr[w].gen]
    /\ wr' = [wr EXCEPT ![w].pc = "save_pkl"]
    /\ NoteRebuild(wr[w].user)
    /\ UNCHANGED <<user_retrievers, index_pkl, built, lastDone>>
    /\ UNCHANGED <<buildVars, routerVars, appVars>>

\* line 60, FAISS.save_local second half: writes index.pkl; the open fails when
\* the folder was removed meanwhile, and the exception returns False (line 69)
BuildSavePkl(w) ==
    /\ wr[w].pc = "save_pkl"
    /\ LET u == wr[w].user IN
       IF index_dir[u]
       THEN /\ index_pkl' = [index_pkl EXCEPT ![u] = wr[w].gen]
            /\ wr' = [wr EXCEPT ![w].pc = "check"]
       ELSE /\ wr' = [wr EXCEPT ![w].pc = "ret", ![w].res = "False"]
            /\ UNCHANGED index_pkl
    /\ NoteRebuild(wr[w].user)
    /\ UNCHANGED <<user_retrievers, index_dir, index_faiss, built, lastDone>>
    /\ UNCHANGED <<buildVars, routerVars, appVars>>

\* line 63: if user_id in self.user_retrievers
BuildCheck(w) ==
    /\ wr[w].pc = "check"
    /\ wr' = [wr EXCEPT ![w].pc = IF user_retrievers[wr[w].user] # NoHandle
                                  THEN "del" ELSE "ret",
                        ![w].res = IF user_retrievers[wr[w].user] # NoHandle
                                   THEN "none" ELSE "True"]
    /\ UNCHANGED <<user_retrievers, index_dir, index_faiss, index_pkl, built, lastDone, cleared, rd>>
    /\ UNCHANGED <<buildVars, routerVars, appVars>>

\* line 64: del self.user_retrievers[user_id]; a key another thread removed
\* meanwhile raises KeyError, which line 69 turns into False
BuildDel(w) ==
    /\ wr[w].pc = "del"
    /\ LET u == wr[w].user IN
       IF user_retrievers[u] # NoHandle
       THEN /\ user_retrievers' = [user_retrievers EXCEPT ![u] = NoHandle]
            /\ wr' = [wr EXCEPT ![w].pc = "ret", ![w].res = "True"]
       ELSE /\ wr' = [wr EXCEPT ![w].pc = "ret", ![w].res = "False"]
            /\ UNCHANGED user_retrievers
    /\ UNCHANGED <<index_dir, index_faiss, index_pkl, built, lastDone, cleared, rd>>
    /\ UNCHANGED <<buildVars, routerVars, appVars>>

\* lines 67, 49, 71: return
BuildReturn(w) ==
    /\ wr[w].pc = "ret"
    /\ LET u == wr[w].user IN
       lastDone' = [lastDone EXCEPT ![u] = IF wr[w].res = "True"
                                           THEN Max(@, wr[w].gen) ELSE @]
    /\ wr' = [wr EXCEPT ![w] = WriterIdle]
    /\ rd' = Older(wr[w].user)
    /\ UNCHANGED <<user_retrievers, index_dir, index_faiss, index_pkl, built, cleared>>
    /\ UNCHANGED <<buildVars, routerVars, appVars>>

build_user_index(w) ==
    \/ \E u \in Contended : BuildCall(w, u)
    \/ \E ok \in BOOLEAN : BuildLoad(w, ok)
    \/ BuildSaveFaiss(w)
    \/ BuildSavePkl(w)
    \/ BuildCheck(w)
    \/ BuildDel(w)
    \/ BuildReturn(w)

-----------------------------------------------------------------------------
(* FileHandler.delete_user_file, no processed file left (lines 158-167) *)

\* line 156, else branch taken
ClearCall(w, u) ==
    /\ wr[w].pc = "idle"
    /\ wr' = [wr EXCEPT ![w] = [pc |-> "rmtree", user |-> u, gen |-> 0, res |-> "none"]]
    /\ UNCHANGED <<user_retrievers, index_dir, index_faiss, index_pkl, built, lastDone, cleared, rd>>
    /\ UNCHANGED <<buildVars, routerVars, appVars>>

\* lines 160-162: remove the index directory with its files
ClearRmtree(w) ==
    /\ wr[w].pc = "rmtree"
    /\ LET u == wr[w].user IN
       /\ index_dir' = [index_dir EXCEPT ![u] = FALSE]
       /\ index_faiss' = [index_faiss EXCEPT ![u] = 0]
       /\ index_pkl' = [index_pkl EXCEPT ![u] = 0]
    /\ wr' = [wr EXCEPT ![w].pc = "c_check"]
    /\ rd' = Older(wr[w].user)
    /\ UNCHANGED <<user_retrievers, built, lastDone, cleared>>
    /\ UNCHANGED <<buildVars, routerVars, appVars>>

\* line 164: if user_id in multi_user_retriever.user_retrievers
ClearCheck(w) ==
    /\ wr[w].pc = "c_check"
    /\ wr' = [wr EXCEPT ![w].pc = IF user_retrievers[wr[w].user] # NoHandle
                                  THEN "c_del" ELSE "c_ret",
                        ![w].res = IF user_retrievers[wr[w].user] # NoHandle
                                   THEN "none" ELSE "True"]
    /\ UNCHANGED <<user_retrievers, index_dir, index_faiss, index_pkl, built, lastDone, cleared, rd>>
    /\ UNCHANGED <<buildVars, routerVars, appVars>>

\* line 165: del; KeyError of a key removed meanwhile returns False (line 169)
ClearDel(w) ==
    /\ wr[w].pc = "c_del"
    /\ LET u == wr[w].user IN
       IF user_retrievers[u] # NoHandle
       THEN /\ user_retrievers' = [user_retrievers EXCEPT ![u] = NoHandle]
            /\ wr' = [wr EXCEPT ![w].pc = "c_ret", ![w].res = "True"]
       ELSE /\ wr' = [wr EXCEPT ![w].pc = "c_ret", ![w].res = "False"]
            /\ UNCHANGED user_retrievers
    /\ UNCHANGED <<index_dir, index_faiss, index_pkl, built, lastDone, cleared, rd>>
    /\ UNCHANGED <<buildVars, routerVars, appVars>>

\* lines 167, 171: return.  From a True return on the documents of the user are
\* deleted; no build persisted since exactly when no index file is on disk.
ClearReturn(w) ==
    /\ wr[w].pc = "c_ret"
    /\ LET u == wr[w].user IN
       cleared' = [cleared EXCEPT ![u] =
                     IF wr[w].res = "True" /\ index_faiss[u] = 0 /\ index_pkl[u] = 0
                        /\ \A x \in Writers \ {w} : wr[x].pc = "idle" \/ wr[x].user # u
                     THEN TRUE ELSE @]
    /\ wr' = [wr EXCEPT ![w] = WriterIdle]
    /\ rd' = Older(wr[w].user)
    /\ UNCHANGED <<user_retrievers, index_dir, index_faiss, index_pkl, built, lastDone>>
    /\ UNCHANGED <<buildVars, routerVars, appVars>>

delete_user_file(w) ==
    \/ \E u \in Contended : ClearCall(w, u)
    \/ ClearRmtree(w)
    \/ ClearCheck(w)
    \/ ClearDel(w)
    \/ ClearReturn(w)

-----------------------------------------------------------------------------
(* query_user_documents and get_user_retriever *)

\* line 100: query_user_documents calls get_user_retriever
QueryCall(r, u) ==
    /\ rd[r].pc = "idle"
    /\ rd' = [rd EXCEPT ![r] = [ReaderIdle EXCEPT !.pc = "g_check", !.user = u, !.new = TRUE]]
    /\ UNCHANGED <<user_retrievers, index_dir, index_faiss, index_pkl, built, lastDone, cleared, wr>>
    /\ UNCHANGED <<buildVars, routerVars, appVars>>

\* line 75: if user_id in self.user_retrievers
GetCheck(r) ==
    /\ rd[r].pc = "g_check"
    /\ rd' = [rd EXCEPT ![r].pc = IF user_retrievers[rd[r].user] # NoHandle
                                  THEN "g_hit" ELSE "g_exists"]
    /\ UNCHANGED <<user_retrievers, index_dir, index_faiss, index_pkl, built, lastDone, cleared, wr>>
    /\ UNCHANGED <<buildVars, routerVars, appVars>>

\* line 76: return self.user_retrievers[user_id]; the KeyError of a key removed
\* meanwhile is caught neither here nor in query_user_documents (line 100)
GetHit(r) ==
    /\ rd[r].pc = "g_hit"
    /\ LET u == rd[r].user IN
       IF user_retrievers[u] # NoHandle
       THEN rd' = [rd EXCEPT ![r].pc = "use", ![r].handle = user_retrievers[u]]
       ELSE rd' = [rd EXCEPT ![r].pc = "done", ![r].res = <<"KeyError", 0>>]
    /\ UNCHANGED <<user_retrievers, index_dir, index_faiss, index_pkl, built, lastDone, cleared, wr>>
    /\ UNCHANGED <<buildVars, routerVars, appVars>>

\* lines 78-83: no index directory, return None
GetExists(r) ==
    /\ rd[r].pc = "g_exists"
    /\ rd' = [rd EXCEPT ![r].pc = IF index_dir[rd[r].user] THEN "g_faiss" ELSE "none"]
    /\ UNCHANGED <<user_retrievers, index_dir, index_faiss, index_pkl, built, lastDone, cleared, wr>>
    /\ UNCHANGED <<buildVars, routerVars, appVars>>

\* GetLoadFaiss without the try/except of lines 85 and 94: the exception of a
\* missing index.faiss leaves get_user_retriever and query_user_documents
GetLoadFaissUncaught(r) ==
    /\ rd[r].pc = "g_faiss"
    /\ LET u == rd[r].user IN
       IF index_faiss[u] # 0
       THEN rd' = [rd EXCEPT ![r].pc = "g_pkl", ![r].faiss = index_faiss[u]]
       ELSE rd' = [rd EXCEPT ![r].pc = "done", ![r].res = <<"RuntimeError", 0>>]
    /\ UNCHANGED <<user_retrievers, index_dir, index_faiss, index_pkl, built, lastDone, cleared, wr>>
    /\ UNCHANGED <<buildVars, routerVars, appVars>>

\* line 86, FAISS.load_local first half: read index.faiss; a missing file
\* raises, and line 94 returns None
GetLoadFaiss(r) ==
    /\ rd[r].pc = "g_faiss"
    /\ LET u == rd[r].user IN
       rd' = [rd EXCEPT ![r].pc = IF index_faiss[u] # 0 THEN "g_pkl" ELSE "none",
                        ![r].faiss = index_faiss[u]]
    /\ UNCHANGED <<user_retrievers, index_dir, index_faiss, index_pkl, built, lastDone, cleared, wr>>
    /\ UNCHANGED <<buildVars, routerVars, appVars>>

\* line 86, FAISS.load_local second half: read index.pkl
GetLoadPkl(r) ==
    /\ rd[r].pc = "g_pkl"
    /\ LET u == rd[r].user IN
       rd' = [rd EXCEPT ![r].pc = IF index_pkl[u] # 0 THEN "g_store" ELSE "none",
                        ![r].faiss = 0,
                        ![r].handle = IF index_pkl[u] # 0
                                      THEN Handle(rd[r].faiss, index_pkl[u]) ELSE NoHandle]
    /\ UNCHANGED <<user_retrievers, index_dir, index_faiss, index_pkl, built, lastDone, cleared, wr>>
    /\ UNCHANGED <<buildVars, routerVars, appVars>>

\* lines 91-93: cache the retriever and return it
GetStore(r) ==
    /\ rd[r].pc = "g_store"
    /\ LET u == rd[r].user IN
       /\ user_retrievers' = [user_retrievers EXCEPT ![u] = rd[r].handle]
       /\ rd' = [rd EXCEPT ![r].pc = "use"]
    /\ UNCHANGED <<index_dir, index_faiss, index_pkl, built, lastDone, cleared, wr>>
    /\ UNCHANGED <<buildVars, routerVars, appVars>>

get_user_retriever(r) ==
    \/ GetCheck(r)
    \/ GetHit(r)
    \/ GetExists(r)
    \/ GetLoadFaiss(r)
    \/ GetLoadPkl(r)
    \/ GetStore(r)

\* lines 102-103: no retriever
QueryNoRetriever(r) ==
    /\ rd[r].pc = "none"
    /\ rd' = [rd EXCEPT ![r].pc = "done", ![r].res = <<NO_DOCUMENTS, 0>>]
    /\ UNCHANGED <<user_retrievers, index_dir, index_faiss, index_pkl, built, lastDone, cleared, wr>>
    /\ UNCHANGED <<buildVars, routerVars, appVars>>

\* lines 105-123: search the loaded store; found is what the search gives
\* ("docs", "empty") or that it raised ("error")
QuerySearch(r, found) ==
    /\ rd[r].pc = "use"
    /\ rd' = [rd EXCEPT ![r].pc = "done", ![r].handle = NoHandle,
                        ![r].res = CASE found = "docs" -> <<CONTEXT, 1>>
                                     [] found = "empty" -> <<NO_RELEVANT, 0>>
                                     [] OTHER -> <<ERROR_RETRIEVING, 0>>]
    /\ UNCHANGED <<user_retrievers, index_dir, index_faiss, index_pkl, built, lastDone, cleared, wr>>
    /\ UNCHANGED <<buildVars, routerVars, appVars>>

\* the caller takes the result
QueryReturn(r) ==
    /\ rd[r].pc = "done"
    /\ rd' = [rd EXCEPT ![r] = ReaderIdle]
    /\ UNCHANGED <<user_retrievers, index_dir, index_faiss, index_pkl, built, lastDone, cleared, wr>>
    /\ UNCHANGED <<buildVars, routerVars, appVars>>

query_user_documents(r) ==
    \/ \E u \in Contended : QueryCall(r, u)
    \/ get_user_retriever(r)
    \/ QueryNoRetriever(r)
    \/ \E found \in {"docs", "empty", "error"} : QuerySearch(r, found)
    \/ QueryReturn(r)

-----------------------------------------------------------------------------
(* Part II: the content of the persisted index, one build at a time *)

\* upload paths, and the longest file_paths list explored
Paths == {"a.pdf", "b.pdf"}
MaxPaths == 2
\* the longest merged index explored
MaxIndexed == 4

SeqsUpTo(S, n) == UNION {[1..k -> S] : k \in 0..n}
\* the file_paths lists explored
PathLists == SeqsUpTo(Paths, MaxPaths)
NoDup(q) == \A i, j \in 1..Len(q) : q[i] = q[j] => i = j

NoCall == [op |-> "none", user |-> "user1", paths |-> <<>>, existing |-> {},
           before |-> <<>>, providerOk |-> TRUE, result |-> "none", ok |-> FALSE]

BuildInit ==
    /\ files = {}
    /\ index_docs = [u \in Users |-> <<>>]
    /\ last = NoCall

\* retriever.py lines 31-45, rag_build.py load_docs: the documents of the
\* listed files that exist, in list order; a missing file is skipped
LoadDocs(paths, existing) == SelectSeq(paths, LAMBDA p : p \in existing)

\* FromDocuments changed to add to the store already persisted
FromDocumentsMerging(old, docs) == old \o docs

\* retriever.py line 59: FAISS.from_documents makes a new store of the chunks
FromDocuments(old, docs) == docs

\* rag_build.py lines 41-47: merge into the existing index, or create one
MergeOrCreate(old, docs, hasFaiss) == IF hasFaiss THEN old \o docs ELSE docs

\* build_user_index without the check of lines 47-49
BuildUserIndexResultUnchecked(docs, providerOk) ==
    IF ~providerOk THEN "False" ELSE "True"

\* retriever.py lines 30-71: what build_user_index returns.  No documents
\* loaded: False (line 49); the embedding provider or the store failing at
\* lines 56-60 raises inside the try, which line 71 turns into False
BuildUserIndexResult(docs, providerOk) ==
    IF docs = <<>> THEN "False"
    ELSE IF ~providerOk THEN "False"
    ELSE "True"

\* rag_build.py lines 30-47: how build_or_update_index ends.  No documents
\* loaded: RuntimeError (line 32); a failure of the provider at lines 38-47
\* is caught nowhere and leaves the function ("raises"); else it returns None
BuildOrUpdateIndexResult(docs, providerOk) ==
    IF docs = <<>> THEN "RuntimeError"
    ELSE IF ~providerOk THEN "raises"
    ELSE "None"

\* file_handler.py lines 83-91 and 101-109: _process_file hands the result of
\* the build to upload_file, which marks the file processed only on True
Processed(result) == result = "True"

\* a successful save_local and what follows it in build_user_index, as one step
Persist(u, docs) ==
    /\ index_docs' = [index_docs EXCEPT ![u] = docs]
    /\ built' = [built EXCEPT ![u] = @ + 1]
    /\ index_faiss' = [index_faiss EXCEPT ![u] = built[u] + 1]
    /\ index_pkl' = [index_pkl EXCEPT ![u] = built[u] + 1]

\* MultiUserRetriever.build_user_index(user_id, file_paths), uninterrupted
BuildUserIndex(u, paths, providerOk) ==
    /\ built[u] < MaxBuilds
    /\ index_dir' = [index_dir EXCEPT ![u] = TRUE]
    /\ LET docs == LoadDocs(paths, files)
           result == BuildUserIndexResult(docs, providerOk)
           good == result = "True"
       IN /\ last' = [op |-> "build_user_index", user |-> u, paths |-> paths,
                      existing |-> files, before |-> index_docs[u],
                      providerOk |-> providerOk, result |-> result, ok |-> good]
          /\ IF good
             THEN /\ Persist(u, FromDocuments(index_docs[u], docs))
                  /\ user_retrievers' = [user_retrievers EXCEPT ![u] = NoHandle]
                  /\ lastDone' = [lastDone EXCEPT ![u] = built[u] + 1]
             ELSE UNCHANGED <<index_docs, built, index_faiss, index_pkl, user_retrievers, lastDone>>
    /\ UNCHANGED <<files, cleared, wr, rd, routerVars, appVars>>

\* rag_build.build_or_update_index(input_paths, index_dir), on the index
\* directory of u; it raises where build_user_index returns False
BuildOrUpdateIndex(u, paths, providerOk) ==
    /\ built[u] < MaxBuilds
    /\ Len(index_docs[u]) + Len(paths) <= MaxIndexed
    /\ index_dir' = [index_dir EXCEPT ![u] = TRUE]
    /\ LET docs == LoadDocs(paths, files)
           result == BuildOrUpdateIndexResult(docs, providerOk)
           good == result = "None"
       IN /\ last' = [op |-> "build_or_update_index", user |-> u, paths |-> paths,
                      existing |-> files, before |-> index_docs[u],
                      providerOk |-> providerOk, result |-> result, ok |-> good]
          /\ IF good
             THEN Persist(u, MergeOrCreate(index_docs[u], docs, index_faiss[u] # 0))
             ELSE UNCHANGED <<index_docs, built, index_faiss, index_pkl>>
    /\ UNCHANGED <<files, user_retrievers, lastDone, cleared, wr, rd, routerVars, appVars>>

\* file_handler.py lines 54-55: an upload writes the file
SaveFile(p) ==
    /\ p \notin files
    /\ files' = files \cup {p}
    /\ UNCHANGED <<cacheVars, index_docs, last, routerVars, appVars>>

\* file_handler.py lines 145-147: a delete unlinks the file
UnlinkFile(p) ==
    /\ p \in files
    /\ files' = files \ {p}
    /\ UNCHANGED <<cacheVars, index_docs, last, routerVars, appVars>>

-----------------------------------------------------------------------------
(* Part III (SpecRouter): the agent graph of app/agent/langgraph_agent.py.    *)
(* A text is the sequence of its characters.                                  *)

RAG == <<"r", "a", "g">>
SEARCH == <<"s", "e", "a", "r", "c", "h">>
BOTH == <<"b", "o", "t", "h">>
\* line 79: the three labels
Labels == {RAG, SEARCH, BOTH}

UpperCase ==
    <<"A", "B", "C", "D", "E", "F", "G", "H", "I", "J", "K", "L", "M", "N",
      "O", "P", "Q", "R", "S", "T", "U", "V", "W", "X", "Y", "Z">>
LowerCase ==
    <<"a", "b", "c", "d", "e", "f", "g", "h", "i", "j", "k", "l", "m", "n",
      "o", "p", "q", "r", "s", "t", "u", "v", "w", "x", "y", "z">>

\* str.lower on one character and on a text
LowerChar(c) ==
    IF \E i \in 1..Len(UpperCase) : UpperCase[i] = c
    THEN LowerCase[CHOOSE i \in 1..Len(UpperCase) : UpperCase[i] = c]
    ELSE c
Lower(t) == [i \in 1..Len(t) |-> LowerChar(t[i])]

\* str.strip: drop the leading and the trailing whitespace
Whitespace == {" ", "\n", "\t", "\r"}
Strip(t) ==
    LET keep == {i \in 1..Len(t) : t[i] \notin Whitespace} IN
    IF keep = {} THEN <<>>
    ELSE SubSeq(t, CHOOSE i \in keep : \A j \in keep : i <= j,
                   CHOOSE i \in keep : \A j \in keep : i >= j)

\* gemini.py lines 27, 36, 40: what ask_gemini returns instead of an answer
ERROR_NO_KEY ==
    <<"E", "r", "r", "o", "r", ":", " ", "G", "o", "o", "g", "l", "e", " ",
      "A", "P", "I", " ", "k", "e", "y", " ", "n", "o", "t", " ", "c", "o",
      "n", "f", "i", "g", "u", "r", "e", "d", ".", " ", "P", "l", "e", "a",
      "s", "e", " ", "s", "e", "t", " ", "G", "O", "O", "G", "L", "E", "_",
      "A", "P", "I", "_", "K", "E", "Y", " ", "e", "n", "v", "i", "r", "o",
      "n", "m", "e", "n", "t", " ", "v", "a", "r", "i", "a", "b", "l", "e",
      ".">>
ERROR_NO_RESPONSE ==
    <<"E", "r", "r", "o", "r", ":", " ", "N", "o", " ", "r", "e", "s", "p",
      "o", "n", "s", "e", " ", "g", "e", "n", "e", "r", "a", "t", "e", "d",
      " ", "f", "r", "o", "m", " ", "G", "e", "m", "i", "n", "i", ".">>
ERROR_FAILED ==
    <<"E", "r", "r", "o", "r", ":", " ", "F", "a", "i", "l", "e", "d", " ",
      "t", "o", " ", "g", "e", "t", " ", "r", "e", "s", "p", "o", "n", "s",
      "e", " ", "f", "r", "o", "m", " ", "G", "e", "m", "i", "n", "i", ".",
      " ">>

\* texts the model may answer the decision prompt with
ModelTexts ==
    { RAG, SEARCH, BOTH,
      <<"R", "A", "G">>,
      <<" ", "S", "e", "a", "r", "c", "h", "\n">>,
      <<"B", "o", "t", "h", ".">>,
      <<"r", "a", "g", " ", "s", "e", "a", "r", "c", "h">>,
      <<"w", "e", "b">>,
      <<" ", "\n">>,
      <<>> }
\* str(e) of an exception of the API call
ExceptionTexts == { <<>>, RAG, <<"4", "2", "9">> }

\* what can happen inside ask_gemini: no API key; the model answers text (the
\* empty text is falsy, line 33); the API call raises e; the handler of line
\* 38 itself raises (print on a closed stream), which leaves ask_gemini
Happenings ==
    {[kind |-> "no_key", text |-> <<>>]}
    \cup {[kind |-> "text", text |-> t] : t \in ModelTexts}
    \cup {[kind |-> "exception", text |-> t] : t \in ExceptionTexts}
    \cup {[kind |-> "raises", text |-> <<>>]}

\* gemini.py lines 26-40: ask_gemini, [raised, text]
ask_gemini(h) ==
    CASE h.kind = "no_key" -> [raised |-> FALSE, text |-> ERROR_NO_KEY]
      [] h.kind = "text" -> [raised |-> FALSE,
                             text |-> IF h.text # <<>> THEN h.text ELSE ERROR_NO_RESPONSE]
      [] h.kind = "exception" -> [raised |-> FALSE, text |-> ERROR_FAILED \o h.text]
      [] OTHER -> [raised |-> TRUE, text |-> <<>>]

\* Fallback without the default of lines 79-80
FallbackMissing(decision) == decision

\* lines 79-80: if decision not in ["rag", "search", "both"]: decision = "rag"
Fallback(decision) == IF decision \notin Labels THEN RAG ELSE decision

\* Decide without the except of lines 81-82: no decision is stored
DecideUncaught(reply) == IF reply.raised THEN <<>> ELSE Fallback(Lower(Strip(reply.text)))

\* lines 77-82: the decision decide_tool stores for a reply of ask_gemini
Decide(reply) == IF reply.raised THEN RAG ELSE Fallback(Lower(Strip(reply.text)))

\* Edge sending "both" to use_rag alone
EdgeBothAsRag(decision) ==
    CASE decision = RAG -> "use_rag"
      [] decision = SEARCH -> "use_search"
      [] decision = BOTH -> "use_rag"
      [] OTHER -> "failed"

\* lines 37-45: the conditional edges; a decision without an edge has no
\* next node ("failed": graph.invoke raises)
Edge(decision) ==
    CASE decision = RAG -> "use_rag"
      [] decision = SEARCH -> "use_search"
      [] decision = BOTH -> "use_both"
      [] OTHER -> "failed"

\* line 101
NO_RELEVANT_DOCUMENTS == "No relevant documents found."
\* line 109: max_results
MAX_RESULTS == 3
\* line 137: state["search_results"][:3]
SHOWN_RESULTS == 3
\* retriever.py line 98: top_k
TOP_K == 4

Min(a, b) == IF a <= b THEN a ELSE b
\* q[:n]
FirstN(q, n) == SubSeq(q, 1, Min(n, Len(q)))

\* A text is here the sequence of its paragraphs (what "\n\n".join puts
\* together); a paragraph is a tuple of strings.  "" is <<>>.
Message(m) == << <<m>> >>
\* the chunks the retriever of a user ranks for a query, best first
Chunks == <<"d1", "d2", "d3", "d4", "d5">>
\* retriever.py lines 113-115: the tag of a chunk, its source and page.  The
\* splitter (lines 52-56, chunk_size 1000) cuts one page into several chunks
\* that keep the page's metadata: d1 and d2 are chunks of one page
Locator(doc) ==
    CASE doc = "d1" -> "a.pdf#p1"
      [] doc = "d2" -> "a.pdf#p1"
      [] doc = "d3" -> "a.pdf#p2"
      [] doc = "d4" -> "b.pdf#p1"
      [] OTHER -> "b.pdf#p2"
\* retriever.py lines 113-116: the block of one retrieved chunk
Block(doc) == <<"[SOURCE: ", Locator(doc), doc>>
\* langgraph_agent.py line 136: the block of one search result
WebBlock(r) == <<"SOURCE: ", r>>

\* QueryContext without the [:top_k] of line 106
QueryContextUnsliced(ranked) ==
    IF ranked = <<>> THEN Message(NO_RELEVANT)
    ELSE [i \in 1..Len(ranked) |-> Block(ranked[i])]

\* retriever.py lines 105-119: the context text for the ranked chunks
QueryContext(ranked) ==
    LET raw_docs == FirstN(ranked, TOP_K) IN
    IF raw_docs = <<>> THEN Message(NO_RELEVANT)
    ELSE [i \in 1..Len(raw_docs) |-> Block(raw_docs[i])]

\* what can happen inside rag_retriever_func (query_user_documents): the user
\* has no index ("none"), the retriever ranks chunks ("docs"), the search
\* raises and line 121 catches it ("error"), or the call itself raises
RagOutcomes ==
    {[kind |-> k, ranked |-> <<>>] : k \in {"none", "error", "raises"}}
    \cup {[kind |-> "docs", ranked |-> SubSeq(Chunks, 1, n)] : n \in 0..Len(Chunks)}

\* retriever.py lines 98-123: the text query_user_documents returns
RagText(out) ==
    CASE out.kind = "none" -> Message(NO_DOCUMENTS)
      [] out.kind = "docs" -> QueryContext(out.ranked)
      [] OTHER -> Message(ERROR_RETRIEVING)

\* the results the search provider has for a query, best first
WebResults == <<"w1", "w2", "w3", "w4">>
\* what the provider does with a search: it answers results, or the call
\* fails (timeout, rate limit)
ProviderOutcomes ==
    {[kind |-> "results", results |-> SubSeq(WebResults, 1, n)] : n \in 0..Len(WebResults)}
    \cup {[kind |-> k, results |-> <<>>] : k \in {"timeout", "rate_limit"}}

\* tavily_search.py lines 18-48: TavilySearcher.search, [raised, results]
TavilySearcherSearch(configured, p, max_results) ==
    IF ~configured THEN [raised |-> FALSE, results |-> <<>>]
    ELSE IF p.kind = "results"
         THEN [raised |-> FALSE, results |-> p.results]
         ELSE [raised |-> FALSE, results |-> <<>>]

\* tavily_tool.py lines 11-32: web_search, [raised, results] (results: its
\* sources); the provider call of lines 18-23 is in no try
web_search(configured, p, max_results) ==
    IF ~configured THEN [raised |-> FALSE, results |-> <<>>]
    ELSE IF p.kind = "results"
         THEN [raised |-> FALSE, results |-> FirstN(p.results, max_results)]
         ELSE [raised |-> TRUE, results |-> <<>>]

\* lines 174-182
InitialState == [decision |-> RAG, rag_context |-> <<>>, search_results |-> <<>>,
                 final_answer |-> ""]

NoEvidence == [doc |-> [kind |-> "unused", ranked |-> <<>>],
               web |-> [configured |-> FALSE, provider |-> [kind |-> "unused", results |-> <<>>]]]
NoReturn == [how |-> "none", text |-> ""]
NoSearch == [adapter |-> "none", configured |-> FALSE,
             provider |-> [kind |-> "unused", results |-> <<>>], max_results |-> 0,
             reply |-> [raised |-> FALSE, results |-> <<>>]]

RouterInit ==
    /\ node = "idle"
    /\ state = InitialState
    /\ happened = [kind |-> "text", text |-> <<>>]
    /\ calls = <<>>
    /\ evidence = NoEvidence
    /\ context_parts = <<>>
    /\ returned = NoReturn
    /\ searched = NoSearch

\* lines 172-185: run() invokes the graph at its entry point
AgentRun ==
    /\ node = "idle"
    /\ node' = "decide_tool"
    /\ state' = InitialState
    /\ calls' = <<>>
    /\ evidence' = NoEvidence
    /\ context_parts' = <<>>
    /\ returned' = NoReturn
    /\ UNCHANGED <<happened, searched>>
    /\ UNCHANGED <<cacheVars, buildVars, appVars>>

\* line 78 onwards: the decision for each thing that can happen in ask_gemini
DecisionOf == [h \in Happenings |-> Decide(ask_gemini(h))]

\* lines 55-85: decide_tool
DecideTool(h) ==
    /\ node = "decide_tool"
    /\ happened' = h
    /\ state' = [state EXCEPT !.decision = DecisionOf[h]]
    /\ calls' = Append(calls, "decide_tool")
    /\ node' = "route_decision"
    /\ UNCHANGED <<evidence, context_parts, returned, searched>>
    /\ UNCHANGED <<cacheVars, buildVars, appVars>>

\* lines 87-88 and 37-45: route_decision picks the edge
RouteDecision ==
    /\ node = "route_decision"
    /\ node' = Edge(state.decision)
    /\ UNCHANGED <<state, happened, calls, evidence, context_parts, returned, searched>>
    /\ UNCHANGED <<cacheVars, buildVars, appVars>>

\* lines 92-101: the body of use_rag
RagContext(out) == IF out.kind = "raises" THEN Message(NO_RELEVANT_DOCUMENTS) ELSE RagText(out)

\* lines 107-113: the body of use_search
SearchResults(reply) == IF reply.raised THEN <<>> ELSE reply.results

\* lines 90-103: use_rag, then generate_answer (line 48)
UseRag(out) ==
    /\ node = "use_rag"
    /\ state' = [state EXCEPT !.rag_context = RagContext(out)]
    /\ evidence' = [evidence EXCEPT !.doc = out]
    /\ calls' = Append(calls, "rag")
    /\ node' = "generate_answer"
    /\ UNCHANGED <<happened, context_parts, returned, searched>>
    /\ UNCHANGED <<cacheVars, buildVars, appVars>>

\* lines 105-115: use_search, then generate_answer (line 49)
UseSearch(configured, p) ==
    /\ node = "use_search"
    /\ state' = [state EXCEPT !.search_results =
                     SearchResults(TavilySearcherSearch(configured, p, MAX_RESULTS))]
    /\ evidence' = [evidence EXCEPT !.web = [configured |-> configured, provider |-> p]]
    /\ calls' = Append(calls, "search")
    /\ node' = "generate_answer"
    /\ UNCHANGED <<happened, context_parts, returned, searched>>
    /\ UNCHANGED <<cacheVars, buildVars, appVars>>

\* line 119: use_both calls use_rag first
UseBothRag(out) ==
    /\ node = "use_both"
    /\ state' = [state EXCEPT !.rag_context = RagContext(out)]
    /\ evidence' = [evidence EXCEPT !.doc = out]
    /\ calls' = Append(calls, "rag")
    /\ node' = "use_both_search"
    /\ UNCHANGED <<happened, context_parts, returned, searched>>
    /\ UNCHANGED <<cacheVars, buildVars, appVars>>

\* lines 120-121: then use_search, then generate_answer (line 50)
UseBothSearch(configured, p) ==
    /\ node = "use_both_search"
    /\ state' = [state EXCEPT !.search_results =
                     SearchResults(TavilySearcherSearch(configured, p, MAX_RESULTS))]
    /\ evidence' = [evidence EXCEPT !.web = [configured |-> configured, provider |-> p]]
    /\ calls' = Append(calls, "search")
    /\ node' = "generate_answer"
    /\ UNCHANGED <<happened, context_parts, returned, searched>>
    /\ UNCHANGED <<cacheVars, buildVars, appVars>>

\* lines 132, 139, 142: the headers of the parts, and the marker
DOCUMENT_CONTEXT == "DOCUMENT CONTEXT:"
WEB_SEARCH_RESULTS == "WEB SEARCH RESULTS:"
NO_ADDITIONAL_CONTEXT == "No additional context available."
MarkerPart == [header |-> "", body |-> Message(NO_ADDITIONAL_CONTEXT)]

\* ContextParts with the web part put before the document part
ContextPartsWebFirst(st) ==
    LET doc == IF st.decision \in {RAG, BOTH} /\ st.rag_context # <<>>
               THEN << [header |-> DOCUMENT_CONTEXT, body |-> st.rag_context] >>
               ELSE <<>>
        shown == FirstN(st.search_results, SHOWN_RESULTS)
        web == IF st.decision \in {SEARCH, BOTH} /\ st.search_results # <<>>
               THEN << [header |-> WEB_SEARCH_RESULTS,
                        body |-> [i \in 1..Len(shown) |-> WebBlock(shown[i])]] >>
               ELSE <<>>
    IN IF web \o doc = <<>> THEN <<MarkerPart>> ELSE web \o doc

\* ContextParts without the tests on the decision of lines 131 and 134
ContextPartsUngated(st) ==
    LET doc == IF st.rag_context # <<>>
               THEN << [header |-> DOCUMENT_CONTEXT, body |-> st.rag_context] >>
               ELSE <<>>
        shown == FirstN(st.search_results, SHOWN_RESULTS)
        web == IF st.search_results # <<>>
               THEN << [header |-> WEB_SEARCH_RESULTS,
                        body |-> [i \in 1..Len(shown) |-> WebBlock(shown[i])]] >>
               ELSE <<>>
    IN IF doc \o web = <<>> THEN <<MarkerPart>> ELSE doc \o web

\* lines 129-142: context_parts
ContextParts(st) ==
    LET doc == IF st.decision \in {RAG, BOTH} /\ st.rag_context # <<>>
               THEN << [header |-> DOCUMENT_CONTEXT, body |-> st.rag_context] >>
               ELSE <<>>
        shown == FirstN(st.search_results, SHOWN_RESULTS)
        web == IF st.decision \in {SEARCH, BOTH} /\ st.search_results # <<>>
               THEN << [header |-> WEB_SEARCH_RESULTS,
                        body |-> [i \in 1..Len(shown) |-> WebBlock(shown[i])]] >>
               ELSE <<>>
    IN IF doc \o web = <<>> THEN <<MarkerPart>> ELSE doc \o web

APOLOGY_GENERATING == "I apologize, but I encountered an error while generating the response."

\* lines 163-168: the answer text for a reply of ask_gemini, stripped
Answer(reply) == IF reply.raised THEN APOLOGY_GENERATING ELSE Strip(reply.text)

\* line 164 onwards: the answer for each thing that can happen in ask_gemini
AnswerOf == [h \in Happenings |-> Answer(ask_gemini(h))]

\* lines 123-170: generate_answer, then END (line 51)
GenerateAnswer(h) ==
    /\ node = "generate_answer"
    /\ happened' = h
    /\ context_parts' = ContextParts(state)
    /\ state' = [state EXCEPT !.final_answer = AnswerOf[h]]
    /\ calls' = Append(calls, "generate_answer")
    /\ node' = "END"
    /\ UNCHANGED <<evidence, returned, searched>>
    /\ UNCHANGED <<cacheVars, buildVars, appVars>>

\* lines 185-186: run() returns the final answer as its value
RunReturn ==
    /\ node = "END"
    /\ node' = "idle"
    /\ returned' = [how |-> "return", text |-> state.final_answer]
    /\ UNCHANGED <<state, happened, calls, evidence, context_parts, searched>>
    /\ UNCHANGED <<cacheVars, buildVars, appVars>>

NextRouter ==
    \/ AgentRun
    \/ \E h \in Happenings : DecideTool(h)
    \/ RouteDecision
    \/ \E out \in RagOutcomes : UseRag(out)
    \/ \E configured \in BOOLEAN, p \in ProviderOutcomes : UseSearch(configured, p)
    \/ \E out \in RagOutcomes : UseBothRag(out)
    \/ \E configured \in BOOLEAN, p \in ProviderOutcomes : UseBothSearch(configured, p)
    \/ \E h \in Happenings : GenerateAnswer(h)
    \/ RunReturn

InitRouter == CacheInit /\ (\A u \in Users : ~index_dir[u]) /\ BuildInit /\ RouterInit /\ AppInit

SpecRouter == InitRouter /\ [][NextRouter]_vars

\* graph.invoke runs the nodes of a run one after the other in the caller's
\* thread, and every call it makes returns or raises: a run under way goes on
RunSteps ==
    \/ \E h \in Happenings : DecideTool(h)
    \/ RouteDecision
    \/ \E out \in RagOutcomes : UseRag(out)
    \/ \E configured \in BOOLEAN, p \in ProviderOutcomes : UseSearch(configured, p)
    \/ \E out \in RagOutcomes : UseBothRag(out)
    \/ \E configured \in BOOLEAN, p \in ProviderOutcomes : UseBothSearch(configured, p)
    \/ \E h \in Happenings : GenerateAnswer(h)
    \/ RunReturn

SpecRouterLive == InitRouter /\ [][NextRouter]_vars /\ WF_vars(RunSteps)

\* the web-search adapters called on their own
MaxAsked == 4

CallSearch(configured, p, max_results) ==
    /\ searched' = [adapter |-> "TavilySearcher.search", configured |-> configured,
                    provider |-> p, max_results |-> max_results,
                    reply |-> TavilySearcherSearch(configured, p, max_results)]
    /\ UNCHANGED <<node, state, happened, calls, evidence, context_parts, returned>>
    /\ UNCHANGED <<cacheVars, buildVars, appVars>>

CallWebSearch(configured, p, max_results) ==
    /\ searched' = [adapter |-> "web_search", configured |-> configured,
                    provider |-> p, max_results |-> max_results,
                    reply |-> web_search(configured, p, max_results)]
    /\ UNCHANGED <<node, state, happened, calls, evidence, context_parts, returned>>
    /\ UNCHANGED <<cacheVars, buildVars, appVars>>

NextSearch ==
    \/ \E configured \in BOOLEAN, p \in ProviderOutcomes, m \in 1..MaxAsked :
          CallSearch(configured, p, m)
    \/ \E configured \in BOOLEAN, p \in ProviderOutcomes, m \in 1..MaxAsked :
          CallWebSearch(configured, p, m)

SpecSearch == InitRouter /\ [][NextSearch]_vars

-----------------------------------------------------------------------------
(* Part IV (SpecIngest): FileHandler of app/file_handler.py over the index of *)
(* app/rag/retriever.py.  Every request runs to its end before the next one.  *)

PDF == <<".", "p", "d", "f">>
TXT == <<".", "t", "x", "t">>
DOCX == <<".", "d", "o", "c", "x">>
DOC == <<".", "d", "o", "c">>
\* file_handler.py line 32
allowed_extensions == {PDF, TXT, DOCX, DOC}
\* the suffixes of the file names clients upload
Extensions == {PDF, <<".", "T", "X", "T">>, <<".", "e", "x", "e">>}
\* the uploads that get as far as drawing a name
MaxFiles == 2

\* the check of lines 37-41 letting every suffix through
IsValidFileTypeAny(ext) == TRUE

\* file_handler.py lines 30-33: Path(filename).suffix.lower() in allowed_extensions
IsValidFileType(ext) == Lower(ext) \in allowed_extensions

\* one index directory for all users
IndexDirShared(u) == "user1"

\* retriever.py lines 21-23: rag_index_<user_id>, the index directory of a user
IndexDir(u) == u

\* file_handler.py lines 24-28: uploads/<user_id>
UploadDir(u) == u

\* db.py get_user_files_collection: <user_id>_files
Collection(u) == u

\* file_handler.py lines 44-50: user_dir / (uuid4 + suffix of the upload)
FilePath(u, name, ext) == [dir |-> UploadDir(u), name |-> name, ext |-> ext]

\* find({"user_id": u, "processed": True}) and the file_path of each record
\* (retriever.py lines 140-141, file_handler.py lines 153-154)
ProcessedPaths(records) ==
    LET recs == SelectSeq(records, LAMBDA r : r.processed)
    IN [i \in 1..Len(recs) |-> recs[i].file_path]

\* retriever.py lines 143-145: the processed files and the new one
AddFilePaths(records, path) ==
    LET paths == ProcessedPaths(records)
    IN IF \E i \in 1..Len(paths) : paths[i] = path THEN paths ELSE Append(paths, path)

\* delete_one({"user_id": u, "filename": name}), file_handler.py line 150
WithoutRecord(records, name) == SelectSeq(records, LAMBDA r : r.filename # name)

\* update_one(..., {"$set": {"processed": True}}), file_handler.py lines 87-90
MarkProcessed(records, name) ==
    [i \in 1..Len(records) |->
        IF records[i].filename = name THEN [records[i] EXCEPT !.processed = TRUE]
        ELSE records[i]]

\* what can go wrong inside build_user_index: the embedding model or the
\* splitter raising (lines 52-59), save_local raising after it wrote
\* index.faiss and before index.pkl is complete (line 60)
BuildFaults == {"none", "provider", "save_local"}

\* retriever.py lines 37-38: PyPDFLoader reads PDF files only and raises on
\* any other file; a file is what its suffix says
LoaderOk(docs) == \A i \in 1..Len(docs) : Lower(docs[i].ext) = PDF

\* retriever.py lines 30-71: what build_user_index returns
RebuildResult(docs, how) ==
    IF ~LoaderOk(docs) THEN "False"
    ELSE IF docs # <<>> /\ how = "save_local" THEN "False"
    ELSE BuildUserIndexResult(docs, how # "provider")

indexVars == <<index_dir, index_docs, built, index_faiss, index_pkl, lastDone, user_retrievers, loaded>>

\* retriever.py lines 25-71: build_user_index(u, paths) from its call to its
\* return, over the files in existing
Rebuild(u, paths, existing, how) ==
    LET dir == IndexDir(u)
        docs == LoadDocs(paths, existing)
        result == RebuildResult(docs, how)
    IN /\ index_dir' = [index_dir EXCEPT ![dir] = TRUE]
       /\ CASE result = "True" ->
                 /\ Persist(dir, FromDocuments(index_docs[dir], docs))
                 /\ lastDone' = [lastDone EXCEPT ![dir] = built[dir] + 1]
                 /\ user_retrievers' = [user_retrievers EXCEPT ![u] = NoHandle]
                 /\ loaded' = [loaded EXCEPT ![u] = <<>>]
            [] LoaderOk(docs) /\ docs # <<>> /\ how = "save_local" ->
                 \* the new index.faiss and an index.pkl that cannot be read
                 /\ built' = [built EXCEPT ![dir] = @ + 1]
                 /\ index_faiss' = [index_faiss EXCEPT ![dir] = built[dir] + 1]
                 /\ index_pkl' = [index_pkl EXCEPT ![dir] = 0]
                 /\ index_docs' = [index_docs EXCEPT ![dir] = <<>>]
                 /\ UNCHANGED <<lastDone, user_retrievers, loaded>>
            [] OTHER ->
                 UNCHANGED <<index_docs, built, index_faiss, index_pkl, lastDone,
                             user_retrievers, loaded>>

\* retriever.py lines 73-96: get_user_retriever(u) from call to return: whether
\* it returns a retriever, over which documents, and the handle it caches
Retrieved(u) ==
    LET dir == IndexDir(u)
        none == [found |-> FALSE, docs |-> <<>>, handle |-> NoHandle]
    IN IF user_retrievers[u] # NoHandle
       THEN [found |-> TRUE, docs |-> loaded[u], handle |-> user_retrievers[u]]
       ELSE IF ~index_dir[dir] THEN none
       ELSE IF index_faiss[dir] = 0 \/ index_pkl[dir] = 0 THEN none
       ELSE [found |-> TRUE, docs |-> index_docs[dir],
             handle |-> Handle(index_faiss[dir], index_pkl[dir])]

\* retriever.py lines 98-119: what query_user_documents(u, q) returns now, for
\* a query that every document matches
QueryOutcome(u) ==
    LET r == Retrieved(u)
    IN IF ~r.found THEN [text |-> NO_DOCUMENTS, docs |-> <<>>]
       ELSE IF r.docs = <<>> THEN [text |-> NO_RELEVANT, docs |-> <<>>]
       ELSE [text |-> CONTEXT, docs |-> FirstN(r.docs, TOP_K)]

\* where upload_file can raise besides the build: writing the file (lines
\* 54-55), insert_one (line 78), update_one (lines 87-90)
UploadFaults == {"none", "save", "insert", "update"}

\* main.py lines 171-204 and file_handler.py lines 35-99: POST /files/upload
UploadFile(u, ext, fault, how) ==
    /\ uuids < MaxFiles
    /\ IF ~IsValidFileType(ext)
       THEN /\ fault = "none" /\ how = "none"
            /\ done' = [NoRequest EXCEPT !.op = "upload", !.user = u, !.ext = ext,
                                         !.status = 400]
            /\ UNCHANGED <<files, db, uuids, deleted, indexVars>>
       ELSE LET name == uuids + 1
                path == FilePath(u, name, ext)
                record == [filename |-> name, file_path |-> path, processed |-> FALSE]
                c == Collection(u)
                inserted == Append(db[c], record)
                paths == AddFilePaths(inserted, path)
                success == RebuildResult(LoadDocs(paths, files \cup {path}), how)
                raised == success = "True" /\ fault = "update"
            IN /\ uuids' = name
               /\ IF fault \in {"save", "insert"}
                  THEN \* lines 95-99: the file, if written, is unlinked again
                       /\ how = "none"
                       /\ done' = [NoRequest EXCEPT !.op = "upload", !.user = u,
                                       !.ext = ext, !.file = path, !.status = 500]
                       /\ UNCHANGED <<files, db, deleted, indexVars>>
                  ELSE /\ Rebuild(u, paths, files \cup {path}, how)
                       /\ files' = IF raised THEN files \ {path} ELSE files \cup {path}
                       /\ db' = [db EXCEPT ![c] =
                                   IF success = "True" /\ ~raised
                                   THEN MarkProcessed(inserted, name) ELSE inserted]
                       /\ done' = [NoRequest EXCEPT !.op = "upload", !.user = u,
                                       !.ext = ext, !.file = path, !.build = success,
                                       !.status = IF raised THEN 500 ELSE 200,
                                       !.result = IF success = "True" /\ ~raised
                                                  THEN "processed" ELSE "unprocessed"]
                       /\ UNCHANGED deleted
    /\ UNCHANGED <<cleared, wr, rd, last, routerVars, chatVars, launcherVars>>

\* where delete_user_file can raise besides the build: delete_one (line 150)
DeleteFaults == {"none", "delete_one"}

\* file_handler.py lines 126-171: delete_user_file(u, name)
DeleteUserFile(u, name, fault, how) ==
    LET c == Collection(u)
        found == SelectSeq(db[c], LAMBDA r : r.filename = name)
    IN /\ IF found = <<>>
          THEN \* lines 141-142
               /\ fault = "none" /\ how = "none"
               /\ done' = [NoRequest EXCEPT !.op = "delete", !.user = u, !.result = "False"]
               /\ UNCHANGED <<files, db, deleted, indexVars>>
          ELSE LET path == found[1].file_path
                   remaining == ProcessedPaths(WithoutRecord(db[c], name))
               IN /\ files' = files \ {path}
                  /\ IF fault = "delete_one"
                     THEN /\ how = "none"
                          /\ done' = [NoRequest EXCEPT !.op = "delete", !.user = u,
                                          !.file = path, !.result = "False"]
                          /\ UNCHANGED <<db, deleted, indexVars>>
                     ELSE /\ db' = [db EXCEPT ![c] = WithoutRecord(@, name)]
                          /\ deleted' = deleted \cup {path}
                          /\ IF remaining # <<>>
                             THEN /\ Rebuild(u, remaining, files \ {path}, how)
                                  /\ done' = [NoRequest EXCEPT !.op = "delete", !.user = u,
                                                !.file = path, !.result = "True",
                                                !.build = RebuildResult(
                                                    LoadDocs(remaining, files \ {path}), how)]
                             ELSE \* lines 159-165: no processed file left
                                  /\ how = "none"
                                  /\ index_dir' = [index_dir EXCEPT ![IndexDir(u)] = FALSE]
                                  /\ index_faiss' = [index_faiss EXCEPT ![IndexDir(u)] = 0]
                                  /\ index_pkl' = [index_pkl EXCEPT ![IndexDir(u)] = 0]
                                  /\ index_docs' = [index_docs EXCEPT ![IndexDir(u)] = <<>>]
                                  /\ user_retrievers' = [user_retrievers EXCEPT ![u] = NoHandle]
                                  /\ loaded' = [loaded EXCEPT ![u] = <<>>]
                                  /\ done' = [NoRequest EXCEPT !.op = "delete", !.user = u,
                                                !.file = path, !.result = "True"]
                                  /\ UNCHANGED <<built, lastDone>>
       /\ UNCHANGED <<uuids, cleared, wr, rd, last, routerVars, chatVars, launcherVars>>

\* retriever.py lines 98-123: query_user_documents(u, q), which caches the
\* retriever it had to load (line 92)
QueryUserDocuments(u) ==
    LET r == Retrieved(u)
        out == QueryOutcome(u)
    IN /\ user_retrievers' = [user_retrievers EXCEPT ![u] = r.handle]
       /\ loaded' = [loaded EXCEPT ![u] = r.docs]
       /\ done' = [NoRequest EXCEPT !.op = "query", !.user = u, !.result = out.text,
                                    !.docs = out.docs]
       /\ UNCHANGED <<index_dir, index_docs, built, index_faiss, index_pkl, lastDone>>
       /\ UNCHANGED <<files, db, uuids, deleted, cleared, wr, rd, last, routerVars, chatVars, launcherVars>>

InitIngest == CacheInit /\ (\A u \in Users : ~index_dir[u]) /\ BuildInit /\ RouterInit /\ AppInit
\* a fresh installation: no index, no upload, no message, no child process
Init0 == InitIngest

\* the faults are drawn for the requests of one user; the other user's
\* requests meet none
FaultsFor(u, faults) == IF u \in Contended THEN faults ELSE {"none"}

NextIngest ==
    \/ \E u \in Users, ext \in Extensions :
          \E fault \in FaultsFor(u, UploadFaults), how \in FaultsFor(u, BuildFaults) :
             UploadFile(u, ext, fault, how)
    \/ \E u \in Users, name \in 1..MaxFiles :
          \E fault \in FaultsFor(u, DeleteFaults), how \in FaultsFor(u, BuildFaults) :
             DeleteUserFile(u, name, fault, how)
    \/ \E u \in Users : QueryUserDocuments(u)

SpecIngest == InitIngest /\ [][NextIngest]_vars

-----------------------------------------------------------------------------
(* Part V (SpecChat): POST /chat of app/main.py *)

\* main.py line 61
ValidUsers == {"user1", "user2", "user3"}
\* the user ids clients send
ChatUsers == Users \cup {"user9"}
\* the /chat requests made
MaxChats == 3
\* where the handler can raise: the first insert_one (line 82), the second
\* (line 93); chatbot_agent.run returns a text whatever happens inside it
ChatFaults == {"none", "insert_user", "insert_bot"}

\* main.py lines 73-82 and 84-93: the two records of a turn
UserMessage(rid) == [role |-> "user", request_id |-> rid]
BotMessage(rid) == [role |-> "assistant", request_id |-> rid]

\* main.py lines 70-93: the records the handler has inserted when it returns
\* or raises
Stored(fault, rid) ==
    CASE fault = "insert_user" -> <<>>
      [] fault = "insert_bot" -> <<UserMessage(rid)>>
      [] OTHER -> <<UserMessage(rid), BotMessage(rid)>>

\* main.py lines 35-40 and 50-125: one POST /chat
Chat(user_id, fault) ==
    /\ rids < MaxChats
    /\ rids' = rids + 1
    /\ LET rid == rids + 1 IN
       IF user_id \notin ValidUsers
       THEN /\ fault = "none"
            /\ replied' = [user |-> user_id, request_id |-> rid, status |-> 400]
            /\ UNCHANGED messages
       ELSE /\ messages' = [messages EXCEPT ![user_id] = @ \o Stored(fault, rid)]
            /\ replied' = [user |-> user_id, request_id |-> rid,
                           status |-> IF fault = "none" THEN 200 ELSE 500]
    /\ UNCHANGED <<cacheVars, buildVars, routerVars, ingestVars, launcherVars>>

NextChat == \E user_id \in ChatUsers, fault \in ChatFaults : Chat(user_id, fault)

SpecChat == Init0 /\ [][NextChat]_vars

-----------------------------------------------------------------------------
(* Part VI (SpecLauncher): ApplicationLauncher of run_full_app.py.  The main *)
(* thread runs run() statement by statement; SIGINT and SIGTERM run          *)
(* signal_handler in the main thread between two statements; a child can     *)
(* exit by itself at any time.                                               *)

\* poll() is None: the child runs, also one that was sent SIGTERM and has
\* not ended yet
Alive(p) == p \in {"running", "signalled"}

\* lines 90-97 and 99-106 run at once: terminate(), wait(timeout=5) and, when
\* the child does not obey within the timeout, kill()
Stopped(p, obeys) ==
    IF Alive(p) THEN (IF obeys THEN "terminated" ELSE "killed") ELSE p

\* run() returning when start_frontend failed, without stop()
AfterFrontendFailureNoStop == "returned"

\* lines 131-134: start_frontend failed: self.stop(), return
AfterFrontendFailure == "stop_frontend"

\* lines 25-27: Popen of the backend; when it raises, start_backend returns
\* False (lines 39-41) and run() returns (lines 126-128)
StartBackendPopen(ok) ==
    /\ lpc = "start_backend"
    /\ IF ok
       THEN backend_process' = "running" /\ lpc' = "backend_sleep"
       ELSE lpc' = "returned" /\ UNCHANGED backend_process
    /\ UNCHANGED <<frontend_process, running, backend_seen>>
    /\ UNCHANGED <<cacheVars, buildVars, routerVars, ingestVars, chatVars>>

\* lines 30, 51 and 170: time.sleep
Sleep ==
    /\ lpc \in {"backend_sleep", "frontend_sleep", "loop_sleep"}
    /\ lpc' = CASE lpc = "backend_sleep" -> "backend_poll"
                [] lpc = "frontend_sleep" -> "frontend_poll"
                [] OTHER -> "loop_backend"
    /\ UNCHANGED <<backend_process, frontend_process, running, backend_seen>>
    /\ UNCHANGED <<cacheVars, buildVars, routerVars, ingestVars, chatVars>>

\* lines 32-37 and 126-128: poll() tells whether the backend runs
StartBackendPoll ==
    /\ lpc = "backend_poll"
    /\ IF Alive(backend_process)
       THEN backend_seen' = TRUE /\ lpc' = "start_frontend"
       ELSE lpc' = "returned" /\ UNCHANGED backend_seen
    /\ UNCHANGED <<backend_process, frontend_process, running>>
    /\ UNCHANGED <<cacheVars, buildVars, routerVars, ingestVars, chatVars>>

\* lines 47-49, 60-62, 131-134: Popen of the frontend
StartFrontendPopen(ok) ==
    /\ lpc = "start_frontend"
    /\ IF ok
       THEN frontend_process' = "running" /\ lpc' = "frontend_sleep"
       ELSE lpc' = AfterFrontendFailure /\ UNCHANGED frontend_process
    /\ UNCHANGED <<backend_process, running, backend_seen>>
    /\ UNCHANGED <<cacheVars, buildVars, routerVars, ingestVars, chatVars>>

\* lines 53-58, 131-137
StartFrontendPoll ==
    /\ lpc = "frontend_poll"
    /\ lpc' = IF Alive(frontend_process) THEN "loop_backend" ELSE AfterFrontendFailure
    /\ UNCHANGED <<backend_process, frontend_process, running, backend_seen>>
    /\ UNCHANGED <<cacheVars, buildVars, routerVars, ingestVars, chatVars>>

\* lines 160-164: while self.running, and the poll of the backend; leaving
\* the loop runs the finally of line 174
LoopBackend ==
    /\ lpc = "loop_backend"
    /\ lpc' = IF running /\ Alive(backend_process) THEN "loop_frontend" ELSE "stop_frontend"
    /\ UNCHANGED <<backend_process, frontend_process, running, backend_seen>>
    /\ UNCHANGED <<cacheVars, buildVars, routerVars, ingestVars, chatVars>>

\* lines 166-170: the poll of the frontend
LoopFrontend ==
    /\ lpc = "loop_frontend"
    /\ lpc' = IF Alive(frontend_process) THEN "loop_sleep" ELSE "stop_frontend"
    /\ UNCHANGED <<backend_process, frontend_process, running, backend_seen>>
    /\ UNCHANGED <<cacheVars, buildVars, routerVars, ingestVars, chatVars>>

\* terminate(): SIGTERM to a child that runs, nothing to one that ended
Terminate(p) == IF p = "running" THEN "signalled" ELSE p

\* wait(timeout=5) and, when it times out, kill() (lines 93-96, 102-105)
WaitOrKill(p) == IF p = "signalled" THEN "killed" ELSE p

\* lines 88-92: stop(): self.running = False, frontend_process.terminate()
StopFrontend ==
    /\ lpc = "stop_frontend"
    /\ running' = FALSE
    /\ frontend_process' = Terminate(frontend_process)
    /\ lpc' = IF frontend_process = "None" THEN "stop_backend" ELSE "wait_frontend"
    /\ UNCHANGED <<backend_process, backend_seen>>
    /\ UNCHANGED <<cacheVars, buildVars, routerVars, ingestVars, chatVars>>

\* lines 93-97
WaitFrontend ==
    /\ lpc = "wait_frontend"
    /\ frontend_process' = WaitOrKill(frontend_process)
    /\ lpc' = "stop_backend"
    /\ UNCHANGED <<backend_process, running, backend_seen>>
    /\ UNCHANGED <<cacheVars, buildVars, routerVars, ingestVars, chatVars>>

\* lines 99-101: backend_process.terminate(); a backend that is None cannot
\* be (stop() is only called after it was seen running), then stop() returns
StopBackend ==
    /\ lpc = "stop_backend"
    /\ backend_process' = Terminate(backend_process)
    /\ lpc' = IF backend_process = "None" THEN "returned" ELSE "wait_backend"
    /\ UNCHANGED <<frontend_process, running, backend_seen>>
    /\ UNCHANGED <<cacheVars, buildVars, routerVars, ingestVars, chatVars>>

\* lines 102-106; stop() returns and run() with it (lines 134, 175)
WaitBackend ==
    /\ lpc = "wait_backend"
    /\ backend_process' = WaitOrKill(backend_process)
    /\ lpc' = "returned"
    /\ UNCHANGED <<frontend_process, running, backend_seen>>
    /\ UNCHANGED <<cacheVars, buildVars, routerVars, ingestVars, chatVars>>

\* lines 80-84: signal_handler runs stop() to its end, then sys.exit(0).
\* SystemExit leaves the process, except that inside the try of lines 158-175
\* the finally runs stop() first, and inside a try of stop() the bare except
\* of lines 95 and 104 swallows it and stop() goes on.  Between the if and
\* the try of stop() either can be the case (caught).
SignalHandler(fobeys, bobeys, caught) ==
    /\ lpc \notin {"returned", "exited"}
    /\ running' = FALSE
    /\ frontend_process' = Stopped(frontend_process, fobeys)
    /\ backend_process' = Stopped(backend_process, bobeys)
    /\ lpc' = CASE lpc \in {"loop_backend", "loop_frontend", "loop_sleep"} -> "stop_frontend"
                [] lpc = "wait_frontend" -> "stop_backend"
                [] lpc = "wait_backend" -> "returned"
                [] lpc = "stop_frontend" /\ caught /\ frontend_process # "None" -> "stop_backend"
                [] lpc = "stop_backend" /\ caught /\ backend_process # "None" -> "returned"
                [] OTHER -> "exited"
    /\ UNCHANGED backend_seen
    /\ UNCHANGED <<cacheVars, buildVars, routerVars, ingestVars, chatVars>>

\* run_server.py or run_frontend.py ends by itself
BackendExits ==
    /\ Alive(backend_process)
    /\ backend_process' = IF backend_process = "signalled" THEN "terminated" ELSE "exited"
    /\ UNCHANGED <<frontend_process, running, lpc, backend_seen>>
    /\ UNCHANGED <<cacheVars, buildVars, routerVars, ingestVars, chatVars>>

FrontendExits ==
    /\ Alive(frontend_process)
    /\ frontend_process' = IF frontend_process = "signalled" THEN "terminated" ELSE "exited"
    /\ UNCHANGED <<backend_process, running, lpc, backend_seen>>
    /\ UNCHANGED <<cacheVars, buildVars, routerVars, ingestVars, chatVars>>

NextLauncher ==
    \/ \E ok \in BOOLEAN : StartBackendPopen(ok)
    \/ StartBackendPoll
    \/ \E ok \in BOOLEAN : StartFrontendPopen(ok)
    \/ StartFrontendPoll
    \/ LoopBackend
    \/ LoopFrontend
    \/ Sleep
    \/ StopFrontend
    \/ WaitFrontend
    \/ StopBackend
    \/ WaitBackend
    \/ \E fobeys \in BOOLEAN, bobeys \in BOOLEAN, caught \in BOOLEAN :
          SignalHandler(fobeys, bobeys, caught)
    \/ BackendExits
    \/ FrontendExits

SpecLauncher == Init0 /\ [][NextLauncher]_vars

-----------------------------------------------------------------------------
Init == CacheInit /\ BuildInit /\ RouterInit /\ AppInit

\* one writer at a time against concurrent queries
Next ==
    \/ build_user_index("w1")
    \/ delete_user_file("w1")
    \/ \E r \in Readers : query_user_documents(r)

Spec == Init /\ [][Next]_vars

\* the steps of the calls under way: a thread that entered build_user_index,
\* delete_user_file or query_user_documents runs on to its return
CallSteps ==
    \/ \E w \in Writers :
          \/ \E ok \in BOOLEAN : BuildLoad(w, ok)
          \/ BuildSaveFaiss(w) \/ BuildSavePkl(w) \/ BuildCheck(w) \/ BuildDel(w) \/ BuildReturn(w)
          \/ ClearRmtree(w) \/ ClearCheck(w) \/ ClearDel(w) \/ ClearReturn(w)
    \/ \E r \in Readers :
          \/ get_user_retriever(r)
          \/ QueryNoRetriever(r)
          \/ \E found \in {"docs", "empty", "error"} : QuerySearch(r, found)
          \/ QueryReturn(r)

\* Spec with its threads scheduled fairly: a call under way is not starved for
\* ever, while nobody is obliged to make a new call.  The class has no
\* thread or timer of its own (retriever.py lines 13-15).
SpecIdle == Init /\ [][Next]_vars /\ WF_vars(CallSteps)

\* concurrent rebuilds and deletes against one query thread
NextRebuild ==
    \/ \E w \in Writers : build_user_index(w)
    \/ \E w \in Writers : delete_user_file(w)
    \/ query_user_documents("r1")

SpecRebuild == Init /\ [][NextRebuild]_vars

\* builds one at a time
InitBuild == CacheInit /\ (\A u \in Users : ~index_dir[u]) /\ BuildInit /\ RouterInit /\ AppInit

NextBuild ==
    \/ \E u \in Contended, paths \in PathLists, providerOk \in BOOLEAN :
          BuildUserIndex(u, paths, providerOk)
    \/ \E u \in Contended, paths \in PathLists, providerOk \in BOOLEAN :
          BuildOrUpdateIndex(u, paths, providerOk)
    \/ \E p \in Paths : SaveFile(p)
    \/ \E p \in Paths : UnlinkFile(p)

SpecBuild == InitBuild /\ [][NextBuild]_vars

-----------------------------------------------------------------------------
(* Index cache: properties *)

Consistent(h) == h[1] = h[2]
WriterIdleAll(u) == \A w \in Writers : wr[w].pc = "idle" \/ wr[w].user # u
\* the index of the last successful rebuild of u is what is on disk
Persisted(u) == lastDone[u] > 0 /\ index_faiss[u] = lastDone[u] /\ index_pkl[u] = lastDone[u]

\* C1: once a rebuild of a scope has returned True (and no writer is active),
\* every get_user_retriever call that returns yields the handle of the index
\* that rebuild persisted, whatever the call did before the rebuild.
C1_GetAfterRebuildIsNew ==
    [][\A r \in Readers :
         LET u == rd[r].user IN
         (rd[r].pc \in {"g_hit", "g_store"} /\ rd'[r].pc = "use"
            /\ WriterIdleAll(u) /\ Persisted(u))
         => rd'[r].handle = Handle(lastDone[u], lastDone[u])]_vars

\* C2: two rebuilds of one scope never overlap in their build-and-persist
\* steps (lines 31-60), and with no writer active the persisted index is the
\* index of one build.
InBuild(w) == wr[w].pc \in {"load", "save_faiss", "save_pkl"}
C2_RebuildsSerialized ==
    /\ \A a, b \in Writers :
         (a # b /\ wr[a].user = wr[b].user) => ~(InBuild(a) /\ InBuild(b))
    /\ \A u \in Users : WriterIdleAll(u) => index_faiss[u] = index_pkl[u]

\* C3: with no rebuild or delete under way, two queries of one scope that
\* both began after the last change of its index never hold handles of
\* different builds at the same time.
C3_OneLiveHandle ==
    \A a, b \in Readers :
        (a # b /\ rd[a].user = rd[b].user /\ rd[a].pc = "use" /\ rd[b].pc = "use"
           /\ rd[a].new /\ rd[b].new /\ WriterIdleAll(rd[a].user))
        => rd[a].handle = rd[b].handle

\* C4: no query loads, caches or searches an index whose two files come from
\* different builds.
C4_NoPartialIndex ==
    /\ \A r \in Readers : rd[r].pc \in {"g_store", "use"} => Consistent(rd[r].handle)
    /\ \A u \in Users : Consistent(user_retrievers[u])

\* C5: a query that began after delete_user_file removed the last file and
\* returned, with no rebuild begun since, gets no handle.
C5_NotFoundAfterDelete ==
    \A r \in Readers :
        (rd[r].new /\ cleared[rd[r].user]) => rd[r].pc # "use"

\* C6: a query that began after a successful rebuild gets a handle whose
\* generation is not below that rebuild's, and the generation of the cached
\* handle of a scope never decreases.
C6_GenerationGrows ==
    /\ \A r \in Readers :
         (rd[r].pc = "use" /\ rd[r].new)
         => (rd[r].handle[1] >= lastDone[rd[r].user] /\ rd[r].handle[2] >= lastDone[rd[r].user])
    /\ \A u \in Users : user_retrievers[u] # NoHandle => user_retrievers[u][2] >= lastDone[u]

\* C7 as claimed: after every successful rebuild, by build_user_index or by
\* build_or_update_index, the persisted index holds exactly the documents of
\* the given files (those that exist), nothing else.
C7_RebuildReplaces ==
    (last.op # "none" /\ last.ok)
    => index_docs[last.user] = LoadDocs(last.paths, last.existing)

\* C7 amended: after a successful build_user_index the persisted index holds
\* exactly the documents of the listed files that existed, in list order,
\* nothing of the earlier index, and none twice unless listed twice; a
\* successful build_or_update_index appends them to the earlier index.
C7_BuildUserIndexReplaces ==
    LET given == LoadDocs(last.paths, last.existing) IN
    /\ (last.op = "build_user_index" /\ last.ok)
       => (index_docs[last.user] = given /\ (NoDup(last.paths) => NoDup(index_docs[last.user])))
    /\ (last.op = "build_or_update_index" /\ last.ok)
       => index_docs[last.user] = last.before \o given

\* C7 witness: a second build_user_index over an index that held another document
C7_Witness ==
    /\ last.op = "build_user_index" /\ last.ok
    /\ last.before # <<>> /\ \E i \in 1..Len(last.before) :
                               \A j \in 1..Len(index_docs[last.user]) :
                                   index_docs[last.user][j] # last.before[i]

-----------------------------------------------------------------------------
(* Decision router: properties *)

\* the classifier's reply is still in happened
Classified == node \in {"route_decision", "use_rag", "use_search", "use_both",
                        "use_both_search", "generate_answer"}

\* C9: after decide_tool the decision is one of the three labels, and it is
\* "rag" whenever the classifier failed (no key, API exception, empty reply,
\* exception out of ask_gemini) or its reply is not a label once stripped and
\* lower-cased; no reply leaves the router without a next node.
C9_ClassifierDefaults ==
    /\ node # "failed"
    /\ Classified =>
         /\ state.decision \in Labels
         /\ happened.kind # "text" => state.decision = RAG
         /\ (happened.kind = "text" /\ Lower(Strip(happened.text)) \notin Labels)
            => state.decision = RAG

\* C9 witness: the API call failed with an exception whose text is "rag"
C9_Witness ==
    /\ node = "route_decision"
    /\ happened = [kind |-> "exception", text |-> RAG]
    /\ state.decision = RAG

\* the adapters a decision calls for
Adapters(decision) ==
    CASE decision = RAG -> {"rag"}
      [] decision = SEARCH -> {"search"}
      [] decision = BOTH -> {"rag", "search"}
      [] OTHER -> {}
AdapterCalls == SelectSeq(calls, LAMBDA c : c \in {"rag", "search"})

\* C10: in every run the first thing invoked is the classification, only
\* adapters of the decision are invoked, each at most once, and when answer
\* generation starts every adapter of the decision has been invoked and has
\* returned; nothing is invoked after answer generation.
C10_RoutingByDecision ==
    /\ calls # <<>> => calls[1] = "decide_tool"
    /\ \A i \in 1..Len(calls) : (i > 1 => calls[i] # "decide_tool")
    /\ \A i \in 1..Len(AdapterCalls) : AdapterCalls[i] \in Adapters(state.decision)
    /\ NoDup(AdapterCalls)
    /\ (node \in {"generate_answer", "END"} \/ (node = "idle" /\ calls # <<>>)) =>
         {AdapterCalls[i] : i \in 1..Len(AdapterCalls)} = Adapters(state.decision)
    /\ \A i \in 1..Len(calls) :
         calls[i] = "generate_answer" => (i = Len(calls) /\ node \in {"END", "idle"})

\* C10 witness: a run decided "both" has finished
C10_Witness ==
    /\ node = "END"
    /\ state.decision = BOTH
    /\ calls = <<"decide_tool", "rag", "search", "generate_answer">>

-----------------------------------------------------------------------------
(* Evidence bundle: properties.  The bundle handed to the synthesizer is    *)
(* context_parts; its snippets are the chunk blocks of the document part    *)
(* and the result blocks of the web part.                                   *)

\* generate_answer has run in this run: context_parts is what the prompt holds
Synthesized == node = "END" \/ (node = "idle" /\ calls # <<>>)

Headers(parts) == {parts[i].header : i \in 1..Len(parts)}
IsBlock(par) == Len(par) = 3 /\ par[1] = "[SOURCE: "
RECURSIVE Tagged(_)
\* the paragraphs of the parts in prompt order, each with the header of its part
Tagged(parts) ==
    IF parts = <<>> THEN <<>>
    ELSE [i \in 1..Len(parts[1].body) |-> [tag |-> parts[1].header, par |-> parts[1].body[i]]]
         \o Tagged(Tail(parts))
IsSnippet(e) ==
    \/ e.tag = WEB_SEARCH_RESULTS
    \/ e.tag = DOCUMENT_CONTEXT /\ IsBlock(e.par)
Snippets(parts) == SelectSeq(Tagged(parts), IsSnippet)
DocSnippets(parts) == SelectSeq(Snippets(parts), LAMBDA e : e.tag = DOCUMENT_CONTEXT)
WebSnippets(parts) == SelectSeq(Snippets(parts), LAMBDA e : e.tag = WEB_SEARCH_RESULTS)

\* every text and every result list an adapter can leave in the state
RagContexts == {<<>>} \cup {RagContext(out) : out \in RagOutcomes}
ResultLists == {p.results : p \in ProviderOutcomes}

\* C11: the bundle of a run decided "rag" has no web part and the bundle of a
\* run decided "search" has no document part; and generate_answer builds
\* such a bundle from any state, whatever the state holds of the other source.
C11_NoForeignSnippets ==
    /\ Synthesized =>
         /\ state.decision = RAG => WEB_SEARCH_RESULTS \notin Headers(context_parts)
         /\ state.decision = SEARCH => DOCUMENT_CONTEXT \notin Headers(context_parts)
    /\ \A rc \in RagContexts, sr \in ResultLists :
         /\ WEB_SEARCH_RESULTS \notin
              Headers(ContextParts([decision |-> RAG, rag_context |-> rc,
                                    search_results |-> sr, final_answer |-> ""]))
         /\ DOCUMENT_CONTEXT \notin
              Headers(ContextParts([decision |-> SEARCH, rag_context |-> rc,
                                    search_results |-> sr, final_answer |-> ""]))

\* C11 witness: a run decided "search" ends with a bundle of web results only
C11_Witness ==
    /\ node = "END" /\ state.decision = SEARCH
    /\ Headers(context_parts) = {WEB_SEARCH_RESULTS}
    /\ Len(WebSnippets(context_parts)) = SHOWN_RESULTS

\* what each adapter gave in this run, as blocks, in the adapter's order
ExpectedDoc ==
    IF evidence.doc.kind = "docs"
    THEN LET d == FirstN(evidence.doc.ranked, TOP_K) IN
         [i \in 1..Len(d) |-> [tag |-> DOCUMENT_CONTEXT, par |-> Block(d[i])]]
    ELSE <<>>
ExpectedWeb ==
    IF evidence.web.configured /\ evidence.web.provider.kind = "results"
    THEN LET w == FirstN(evidence.web.provider.results, SHOWN_RESULTS) IN
         [i \in 1..Len(w) |-> [tag |-> WEB_SEARCH_RESULTS, par |-> WebBlock(w[i])]]
    ELSE <<>>

\* C12: the snippets of the bundle are the document adapter's snippets in the
\* adapter's order followed by the web adapter's snippets in the adapter's
\* order: [d1,d2] and [w1] under "both" give [d1,d2,w1].
C12_MergeOrder ==
    Synthesized => Snippets(context_parts) = ExpectedDoc \o ExpectedWeb

\* C12 witness: [d1,d2] and [w1] under "both"
C12_Witness ==
    /\ node = "END" /\ state.decision = BOTH
    /\ evidence.doc = [kind |-> "docs", ranked |-> <<"d1", "d2">>]
    /\ evidence.web.configured /\ evidence.web.provider.results = <<"w1">>
    /\ Snippets(context_parts) =
         << [tag |-> DOCUMENT_CONTEXT, par |-> Block("d1")],
            [tag |-> DOCUMENT_CONTEXT, par |-> Block("d2")],
            [tag |-> WEB_SEARCH_RESULTS, par |-> WebBlock("w1")] >>

\* C13 as claimed: the bundle never holds more than 6 snippets.
C13_BudgetSix ==
    Synthesized => Len(Snippets(context_parts)) <= 6

\* C13 amended: the bundle holds at most top_k (4) document snippets and at
\* most 3 web snippets, so at most 7 snippets; nothing caps the total.
C13_PerAdapterCaps ==
    Synthesized =>
        /\ Len(DocSnippets(context_parts)) <= TOP_K
        /\ Len(WebSnippets(context_parts)) <= SHOWN_RESULTS
        /\ Len(Snippets(context_parts)) <= TOP_K + SHOWN_RESULTS

\* C13 witness: both adapters gave more than their maximum, the bundle holds 7
C13_Witness ==
    /\ node = "END" /\ state.decision = BOTH
    /\ Len(evidence.doc.ranked) > TOP_K
    /\ Len(evidence.web.provider.results) > SHOWN_RESULTS
    /\ Len(Snippets(context_parts)) = TOP_K + SHOWN_RESULTS

\* C14: when the user has no index and web search is unconfigured (or was
\* not asked), the bundle is the empty-context marker alone, with no
\* document part.
C14_NoDocumentsMarker ==
    (Synthesized /\ evidence.doc.kind = "none" /\ ~evidence.web.configured)
    => /\ context_parts = <<MarkerPart>>
       /\ DOCUMENT_CONTEXT \notin Headers(context_parts)

\* C15: under "both", when the document adapter failed and the web adapter
\* gave one result, the web adapter was invoked, the bundle is that one web
\* snippet with no document part, and run() raises nothing.
C15_DocumentFailureWebOnly ==
    (Synthesized /\ state.decision = BOTH
       /\ evidence.doc.kind \in {"error", "raises"}
       /\ evidence.web.configured /\ evidence.web.provider.results = <<"w1">>)
    => /\ \E i \in 1..Len(calls) : calls[i] = "search"
       /\ context_parts = << [header |-> WEB_SEARCH_RESULTS, body |-> <<WebBlock("w1")>>] >>
       /\ returned.how # "raise"

\* C16: a bundle without any snippet carries the empty-context marker.
C16_EmptyBundleHasMarker ==
    (Synthesized /\ Snippets(context_parts) = <<>>)
    => \E i \in 1..Len(context_parts) : context_parts[i] = MarkerPart

\* the generation call of this run could not be completed: no API key, the
\* API call raised, it gave no text, or ask_gemini itself raised
SynthFailed == happened.kind # "text" \/ happened.text = <<>>

\* C17: when the generation call could not be completed, run() does not end
\* by returning a text as its answer: it ends with an error.
C17_SynthesisUnavailable ==
    (node = "idle" /\ returned.how # "none" /\ SynthFailed) => returned.how = "raise"

\* C18: no run is left without a next node, every run that has started
\* reaches the end of generate_answer, and run() then returns a text, whatever
\* the classifier and the adapters did.
C18_RunReturns ==
    /\ [](node # "failed")
    /\ (node = "decide_tool") ~> (node = "END")
    /\ (node = "END") ~> (node = "idle" /\ returned.how = "return")

\* C18 witness: a run decided "both" whose document adapter raised and whose
\* search timed out has returned
C18_Witness ==
    /\ node = "idle" /\ returned.how = "return"
    /\ state.decision = BOTH
    /\ evidence.doc.kind = "raises"
    /\ evidence.web.configured /\ evidence.web.provider.kind = "timeout"

\* C19: each web-search adapter returns no results when unconfigured and when
\* the provider call fails, and never raises.
C19_WebAdaptersDegrade ==
    searched.adapter # "none" =>
        /\ ~searched.reply.raised
        /\ ~searched.configured => searched.reply.results = <<>>
        /\ searched.provider.kind # "results" => searched.reply.results = <<>>

C21_NoDuplicateLocators ==
    (Synthesized /\ evidence.doc.kind = "docs")
    => LET snippets == DocSnippets(context_parts) IN
       \A i, j \in 1..Len(snippets) : snippets[i].par[2] = snippets[j].par[2] => i = j

\* no call of any thread is under way
Quiet ==
    /\ \A w \in Writers : wr[w].pc = "idle"
    /\ \A r \in Readers : rd[r].pc = "idle"

\* C22: idle eviction bounds the cache: a handle that nobody uses any more is
\* eventually dropped, so a scope is, again and again, either in use or
\* without a cached handle.  (Its second half, that no handle is evicted
\* during a rebuild of its scope, has nothing to restrict: no step evicts.)
C22_IdleHandleDropped ==
    \A u \in Contended : []<>(~Quiet \/ user_retrievers[u] = NoHandle)

-----------------------------------------------------------------------------
(* Ingestion: properties *)

\* the elements of a sequence
Range(q) == {q[i] : i \in 1..Len(q)}

\* what a scope's queries rest on: cached handle, persisted index, query result
Scope(v) ==
    <<user_retrievers[v], loaded[v], index_dir[IndexDir(v)], index_docs[IndexDir(v)],
      index_faiss[IndexDir(v)], index_pkl[IndexDir(v)], QueryOutcome(v)>>

\* C23: scope isolation: a query of user u returns only chunks of files that
\* were uploaded under u, and no request of one user changes the cached
\* handle, the persisted index or the query results of another user.
C23_ScopeIsolation ==
    [][/\ done'.op = "query" =>
            \A i \in 1..Len(done'.docs) : done'.docs[i].dir = done'.user
       /\ \A v \in Users \ {done'.user} : Scope(v)' = Scope(v)]_vars

C23_Witness ==
    /\ done.op = "query"
    /\ done.docs # <<>>
    /\ \E v \in Users \ {done.user} : index_docs[IndexDir(v)] # <<>> /\ db[v] # <<>>

\* C24: once delete_user_file(u, f) has returned True, no later query of u
\* returns content of f, also when the rebuild over the remaining files failed.
C24_DeletionEffective ==
    done.op = "query" => \A i \in 1..Len(done.docs) : done.docs[i] \notin deleted

\* C25: a build_user_index that returns False changes nothing a query can see:
\* the cached handle and the result of a query of the scope are as before.
C25_FailedRebuildInvisible ==
    [][\A u \in Users :
          (done'.build = "False" /\ done'.user = u) =>
              /\ user_retrievers'[u] = user_retrievers[u]
              /\ QueryOutcome(u)' = QueryOutcome(u)]_vars

\* C26: between requests, the files covered by a user's persisted index are
\* exactly the files whose record has processed = True.
C26_IndexedIffProcessed ==
    \A u \in Users :
        Range(index_docs[IndexDir(u)]) = Range(ProcessedPaths(db[Collection(u)]))

\* C27: an upload that ends with the 500 "File processing error" leaves no
\* stored file, no metadata record and no chunk of the file in the index.
C27_FailedUploadNoTrace ==
    (done.op = "upload" /\ done.status = 500) =>
        /\ done.file \notin files
        /\ \A i \in 1..Len(db[done.user]) : db[done.user][i].file_path # done.file
        /\ done.file \notin Range(index_docs[IndexDir(done.user)])

\* the suffixes an upload may have
SupportedSuffixes == {PDF, TXT, DOCX, DOC}

\* C28: an upload whose suffix is none of .pdf, .txt, .docx, .doc is answered
\* with status 400 and changes nothing: no file, no record, no index, no
\* cache entry.
C28_UnsupportedRejected ==
    [][(done'.op = "upload" /\ Lower(done'.ext) \notin SupportedSuffixes) =>
          /\ done'.status = 400
          /\ UNCHANGED <<files, db, indexVars>>]_vars

C28_Witness ==
    /\ done.op = "upload" /\ done.status = 400
    /\ files # {} /\ \E u \in Users : index_docs[IndexDir(u)] # <<>>

-----------------------------------------------------------------------------
(* Chat and launcher: properties *)

\* the records stored anywhere under a request id
Turn(rid) == [u \in Users |-> SelectSeq(messages[u], LAMBDA m : m.request_id = rid)]

\* C29: chat persistence is all-or-nothing per turn: a /chat request answered
\* with success has stored exactly one user message followed by one assistant
\* message with its request id, and one that failed (400 or 500) has stored
\* nothing for that turn.
C29_TurnAllOrNothing ==
    replied.status # 0 =>
        \A u \in Users :
            Turn(replied.request_id)[u] =
                IF replied.status = 200 /\ u = replied.user
                THEN <<UserMessage(replied.request_id), BotMessage(replied.request_id)>>
                ELSE <<>>

====
